---- MODULE Spec2Model ----
(***************************************************************************)
(* Model of transform-text: the QR encoder (to_qrcode.py), the chunk       *)
(* decoders (from_number.py, from_qr.py) and the text-frame decoder        *)
(* (from_text.py).                                                         *)
(*                                                                         *)
(* Bytes are naturals 0..255, byte strings are sequences of bytes.  A     *)
(* Python int is represented by its magnitude in base 256 without leading  *)
(* zero limbs (so 0 is the empty sequence); decimal strings are sequences  *)
(* of characters, where 0..9 stand for the ASCII digits and NonDigit for   *)
(* any other byte.  Conversions between the two are done by long division, *)
(* as arbitrary-precision integers are.                                    *)
(***************************************************************************)
EXTENDS Integers, Sequences, FiniteSets, TLC

\* ------------------------------------------------------------------ bounds
MaxLen == 4        \* longest short compressed stream enumerated in Init
MaxCap == 2        \* largest small chunk capacity enumerated in Init
MaxLines == 3      \* most text frames on stdin
ByteVals == {0, 255}

\* ------------------------------------------------------- program constants
MaxIndex == 255    \* to_qrcode.py:360, one index byte
NonDigit == 10     \* any byte outside "0".."9" (from_number.py:38-43)
NoAttr == -1       \* sys.get_int_max_str_digits missing (AttributeError)

\* ------------------------------------------------------------ small helpers
Min(a, b) == IF a < b THEN a ELSE b

Range(f) == {f[x] : x \in DOMAIN f}

SeqsUpTo(S, n) == UNION {[1..k -> S] : k \in 0..n}

IsPrefix(p, s) == Len(p) <= Len(s) /\ SubSeq(s, 1, Len(p)) = p

RECURSIVE StripLeadingZeros(_)
StripLeadingZeros(s) ==
    IF s = <<>> THEN <<>>
    ELSE IF Head(s) = 0 THEN StripLeadingZeros(Tail(s)) ELSE s

\* Remainder of the number with limbs s[1..i] (base b, big-endian) modulo v.
RECURSIVE RemAt(_, _, _, _)
RemAt(s, b, v, i) ==
    IF i = 0 THEN 0 ELSE (RemAt(s, b, v, i - 1) * b + s[i]) % v

\* Quotient of the number s (base b, big-endian) by v, leading zeros kept.
QuotBy(s, b, v) ==
    [i \in 1..Len(s) |-> (RemAt(s, b, v, i - 1) * b + s[i]) \div v]

\* Limbs in base v (big-endian) of the number whose limbs in base b are s.
RECURSIVE Rebase(_, _, _)
Rebase(s, b, v) ==
    LET n == StripLeadingZeros(s)
    IN IF n = <<>> THEN <<>>
       ELSE Append(Rebase(QuotBy(n, b, v), b, v), RemAt(n, b, v, Len(n)))

\* int.from_bytes(bs): big-endian, the value has no leading zero limbs.
IntFromBytes(bs) == StripLeadingZeros(bs)

\* str(i): decimal digits, "0" for zero.
IntToStr(i) == IF i = <<>> THEN <<0>> ELSE Rebase(i, 256, 10)

\* i.bit_length()
RECURSIVE BitLengthOfByte(_)
BitLengthOfByte(x) == IF x = 0 THEN 0 ELSE 1 + BitLengthOfByte(x \div 2)

BitLength(i) ==
    IF i = <<>> THEN 0 ELSE 8 * (Len(i) - 1) + BitLengthOfByte(i[1])

\* i.to_bytes(n): big-endian, left-padded with zero bytes to n bytes.
IntToBytes(i, n) == [k \in 1..(n - Len(i)) |-> 0] \o i

\* int(digits) for a string of ASCII digits: ValueError when it is empty or
\* holds a character that is not a digit.
IsDigits(s) == s # <<>> /\ \A k \in 1..Len(s) : s[k] \in 0..9

IntOfStr(s) == Rebase(s, 10, 256)

\* int("9" * d).bit_length() for d >= 1.  10^d is never a power of two, so
\* the bit length of 10^d - 1 is floor(d * log2(10)) + 1, and 254370/76573
\* is a convergent of log2(10) that gives the exact floor for d < 76573.
BitLengthOfNines(d) == (d * 254370) \div 76573 + 1

\* ------------------------------------------------------------ capacity table
qrcode_infos ==
    [L |-> <<0, 41, 77, 127, 187, 255, 322, 370, 461, 552, 652, 772, 883,
             1022, 1101, 1250, 1408, 1548, 1725, 1903, 2061, 2232, 2409,
             2620, 2812, 3057, 3514, 3669, 3909, 4158, 4417, 4686, 4965,
             5253, 5529, 5836, 6153, 6479, 6743, 7089>>,
     M |-> <<0, 34, 63, 101, 149, 202, 255, 293, 365, 432, 513, 604, 691,
             796, 871, 991, 1082, 1212, 1346, 1500, 1600, 1708, 1872, 2059,
             2188, 2395, 2544, 2701, 2857, 3035, 3289, 3486, 3693, 3909,
             4134, 4343, 4588, 4775, 5039, 5313, 5596>>,
     Q |-> <<0, 27, 48, 77, 111, 144, 178, 207, 259, 312, 364, 427, 489,
             580, 621, 703, 775, 876, 948, 1063, 1159, 1224, 1358, 1468,
             1588, 1718, 1804, 1933, 2085, 2181, 2358, 2473, 2670, 2805,
             2949, 3081, 3244, 3417, 3599, 3791, 3993>>,
     H |-> <<0, 17, 34, 58, 82, 106, 139, 154, 202, 235, 288, 331, 374,
             427, 468, 530, 602, 674, 746, 813, 919, 969, 1056, 1108, 1228,
             1286, 1425, 1501, 1581, 1677, 1782, 1897, 2022, 2157, 2301,
             2361, 2524, 2625, 2735, 2927, 3057>>]

Levels == {"L", "M", "Q", "H"}

Versions == 1..40

\* Values sys.get_int_max_str_digits() can return: 0 (limit switched off),
\* the smallest limit the interpreter accepts, its default, and one above
\* every table entry; NoAttr when the interpreter has no such function.
IntMaxStrDigitsChoices == {NoAttr, 0, 640, 4300, 7089}

\* to_qrcode.py:334, the payload bytes of one chunk for a digit budget d.
MaxChunkSizeOf(d) == BitLengthOfNines(d) \div 8 - 1

\* Capacities the chunking loop is run with: the small ones, and the smallest
\* one the table yields (level H, version 1).
Capacities == (1..MaxCap) \cup {MaxChunkSizeOf(qrcode_infos.H[2])}

\* A stream of n bytes whose windows start with every byte value in turn.
LongStream(n) == [i \in 1..n |-> (i - 1) % 256]

\* Compressed streams the loop is run on for capacity c: every short stream
\* over ByteVals, one that needs exactly MaxIndex windows and one that needs
\* one window more.
StreamsFor(c) ==
    SeqsUpTo(ByteVals, MaxLen)
        \cup {LongStream(MaxIndex * c), LongStream(MaxIndex * c + 1)}

\* Archives (the tar members a decompressed stream can hold): a member is a
\* path and whether it is a directory; path characters are 1 "/" 2 "a" 3 "b".
Slash == 1
Member(name, isdir) == [name |-> name, isdir |-> isdir]

Archives ==
    { <<Member(<<2>>, FALSE)>>,
      <<Member(<<2>>, FALSE), Member(<<3>>, FALSE)>>,
      <<Member(<<2>>, TRUE), Member(<<2, Slash, 3>>, TRUE),
        Member(<<2, Slash, 3, Slash, 2>>, FALSE)>>,
      <<Member(<<2>>, TRUE), Member(<<2, Slash, 2>>, FALSE),
        Member(<<3>>, TRUE)>> }

\* ------------------------------------------------------------------- state
VARIABLES
    \* to_qrcode.main
    error,               \* args.error
    max_version,         \* args.max_version
    int_max_str_digits,  \* what sys.get_int_max_str_digits() returns
    max_str_digits,
    max_chunk_size,
    stream,              \* temp_file: the compressed archive
    pos,                 \* read cursor of temp_file
    file_index,
    out_dir,             \* output directory: n |-> digits of "<n>.png"
    emitted,             \* the windows read so far for which a chunk was made
    epc,
    \* the folder handed to process_folder
    mode,                \* "number" (from_number.py) or "qr" (from_qr.py)
    folder,              \* file name |-> unit
    removed,             \* indices of the encoder's chunks left out of folder
    extra,               \* TRUE when a unit the encoder did not write is added
    \* process_folder
    scanned,             \* files of folder the os.listdir loop has visited
    chunk_dict,
    reported,            \* the list printed by "Need QR image: indexes="
    reassembled,         \* the bytes fed to the decompressor, in order
    archive,             \* the tar members the decompressed bytes hold
    plain_members,       \* members the decompressed temp_file holds whole
    plain_truncated,     \* temp_file ends inside a member or its header
    extracted,           \* names of the members extracted so far, in order
    dir_tarinfo_list,
    meta_log,            \* one entry per directory the second pass has handled
    result,              \* "0" or "1" returned, "exception" for an uncaught one
    dpc,
    \* from_text.main
    lines,               \* stdin, one frame per line
    line_no,             \* i of enumerate(stdin.buffer)
    bin_files,           \* i |-> content of "<i>.bin"
    tpc

encVars == <<error, max_version, int_max_str_digits, max_str_digits,
             max_chunk_size, stream, pos, file_index, out_dir, emitted,
             epc>>
folderVars == <<mode, folder, removed, extra>>
decVars == <<scanned, chunk_dict, reported, reassembled, archive, plain_members,
             plain_truncated, extracted, dir_tarinfo_list, meta_log,
             result, dpc>>
textVars == <<lines, line_no, bin_files, tpc>>
vars == <<encVars, folderVars, decVars, textVars>>

\* ------------------------------------------------------------ idle parts
EncIdle ==
    /\ error = "M" /\ max_version = 40 /\ int_max_str_digits = NoAttr
    /\ max_str_digits = 0 /\ max_chunk_size = 0
    /\ stream = <<>> /\ pos = 0 /\ file_index = 0
    /\ out_dir = <<>> /\ emitted = <<>> /\ epc = "idle"

FolderIdle ==
    /\ mode = "number" /\ folder = <<>> /\ removed = {} /\ extra = FALSE

DecIdle ==
    /\ scanned = {} /\ chunk_dict = <<>> /\ reported = <<>>
    /\ reassembled = <<>> /\ archive = <<>>
    /\ plain_members = 0 /\ plain_truncated = FALSE
    /\ extracted = <<>> /\ dir_tarinfo_list = <<>> /\ meta_log = <<>>
    /\ result = "none" /\ dpc = "idle"

TextIdle ==
    /\ lines = <<>> /\ line_no = 0 /\ bin_files = <<>> /\ tpc = "idle"

\* ------------------------------------------- to_qrcode.main: the capacity
InitCap ==
    /\ error \in Levels
    /\ max_version \in Versions
    /\ int_max_str_digits \in IntMaxStrDigitsChoices
    /\ max_str_digits = 0 /\ max_chunk_size = 0
    /\ stream = <<>> /\ pos = 0 /\ file_index = 0
    /\ out_dir = <<>> /\ emitted = <<>> /\ epc = "args"
    /\ FolderIdle /\ DecIdle /\ TextIdle

\* qrcode_info[1][args.max_version]: the tuple is indexed from 0.
HasEntry(level, version) == version + 1 <= Len(qrcode_infos[level])
DigitEntry(level, version) == qrcode_infos[level][version + 1]

\* min(max_str_digits, sys.get_int_max_str_digits()), or the entry itself
\* when the interpreter has no such limit.
ClampDigits(d, limit) == IF limit = NoAttr THEN d ELSE Min(d, limit)

\* Lines 328-333; IndexError when the level's tuple has no such entry.
LookupDigits ==
    /\ epc = "args"
    /\ IF HasEntry(error, max_version)
       THEN /\ max_str_digits' =
                 ClampDigits(DigitEntry(error, max_version), int_max_str_digits)
            /\ epc' = "digits"
       ELSE /\ epc' = "exception"
            /\ UNCHANGED max_str_digits
    /\ UNCHANGED <<error, max_version, int_max_str_digits, max_chunk_size,
                   stream, pos, file_index, out_dir, emitted>>
    /\ UNCHANGED <<folderVars, decVars, textVars>>

\* Line 334; int("") raises ValueError.
ComputeChunkSize ==
    /\ epc = "digits"
    /\ IF max_str_digits >= 1
       THEN /\ max_chunk_size' = MaxChunkSizeOf(max_str_digits)
            /\ epc' = "sized"
       ELSE /\ epc' = "exception"
            /\ UNCHANGED max_chunk_size
    /\ UNCHANGED <<error, max_version, int_max_str_digits, max_str_digits,
                   stream, pos, file_index, out_dir, emitted>>
    /\ UNCHANGED <<folderVars, decVars, textVars>>

NextCap == LookupDigits \/ ComputeChunkSize

SpecCap == InitCap /\ [][NextCap]_vars

\* ------------------------------------------ to_qrcode.main: the chunk loop
\* The state at line 353: the archive is compressed into temp_file, the
\* cursor is at 0, the output directory holds nothing of this run.
\* The capacity is the one of level H, version 1, or one of the small
\* capacities, which no table entry yields and which stand for "any
\* capacity of at least one byte".
Init ==
    /\ error = "H" /\ max_version = 1 /\ int_max_str_digits = NoAttr
    /\ max_chunk_size \in Capacities
    /\ max_str_digits =
          IF max_chunk_size = MaxChunkSizeOf(DigitEntry("H", 1))
          THEN DigitEntry("H", 1) ELSE 0
    /\ stream \in StreamsFor(max_chunk_size)
    /\ pos = 0 /\ file_index = 0 /\ out_dir = <<>> /\ emitted = <<>>
    /\ epc = "loop"
    /\ FolderIdle /\ DecIdle /\ TextIdle

\* ReadWindow with the window one byte short.
ReadWindowShort(s, p, n) == SubSeq(s, p + 1, Min(p + n - 1, Len(s)))

\* temp_file.read(n) at cursor p: at most n bytes, fewer at the end.
ReadWindow(s, p, n) == SubSeq(s, p + 1, Min(p + n, Len(s)))

\* ChunkDigits with the index counted from 0, as the file names are.
ChunkDigitsZeroBased(index, chunk) ==
    IntToStr(IntFromBytes(<<index - 1>> \o chunk))

\* str(int.from_bytes(bytes((file_index,)) + chunk)).encode()
ChunkDigits(index, chunk) == IntToStr(IntFromBytes(<<index>> \o chunk))

\* One pass of the while loop, lines 355-392.
EncodeStep ==
    /\ epc = "loop"
    /\ LET chunk == ReadWindow(stream, pos, max_chunk_size)
       IN /\ pos' = pos + Len(chunk)
          /\ IF chunk = <<>>
             THEN /\ epc' = "done"
                  /\ UNCHANGED <<file_index, out_dir, emitted>>
             ELSE IF file_index >= MaxIndex
             THEN /\ epc' = "exit1"
                  /\ UNCHANGED <<file_index, out_dir, emitted>>
             ELSE /\ file_index' = file_index + 1
                  /\ out_dir' = (file_index :> ChunkDigits(file_index + 1, chunk))
                                    @@ out_dir
                  /\ emitted' = Append(emitted, chunk)
                  /\ epc' = "loop"
    /\ UNCHANGED <<error, max_version, int_max_str_digits, max_str_digits,
                   max_chunk_size, stream>>
    /\ UNCHANGED <<folderVars, decVars, textVars>>

\* -------------------------------------------- the folder of transport units
\* A unit of from_number.py is a file: whether open() succeeds, and its bytes.
\* A unit of from_qr.py is an image: whether it can be opened and scanned, and
\* the symbols pyzbar finds in it.
NumberUnit(readable, raw) == [readable |-> readable, raw |-> raw]
QrUnit(readable, symbols) == [readable |-> readable, symbols |-> symbols]
Symbol(type, data) == [type |-> type, data |-> data]

\* The unit that carries the digits of one image of the encoder: the QR code
\* itself, or its digits dumped to a text file with a line end.
Delivered(m, digits) ==
    IF m = "number"
    THEN NumberUnit(TRUE, digits \o <<NonDigit>>)
    ELSE QrUnit(TRUE, <<Symbol("QRCODE", digits)>>)

\* Units the encoder's run did not write and a folder may hold as well: an
\* unreadable file, one without a number, the number 0, a chunk 1 of another
\* run, a chunk 9, and a second copy of this run's first image.
StaleDigits == ChunkDigits(1, <<7>>)
FarDigits == ChunkDigits(9, <<>>)

ExtraUnits(m, out) ==
    LET copy == IF 0 \in DOMAIN out THEN <<0>> \o out[0] ELSE StaleDigits
    IN IF m = "number"
       THEN << NumberUnit(FALSE, <<>>),
               NumberUnit(TRUE, <<NonDigit, NonDigit>>),
               NumberUnit(TRUE, <<NonDigit, 0>>),
               NumberUnit(TRUE, StaleDigits),
               NumberUnit(TRUE, <<NonDigit>> \o FarDigits),
               NumberUnit(TRUE, copy) >>
       ELSE << QrUnit(FALSE, <<>>),
               QrUnit(TRUE, <<Symbol("EAN13", <<1, 2>>)>>),
               QrUnit(TRUE, <<Symbol("QRCODE", <<NonDigit, 1>>),
                              Symbol("QRCODE", <<0>>)>>),
               QrUnit(TRUE, <<Symbol("QRCODE", StaleDigits)>>),
               QrUnit(TRUE, <<Symbol("QRCODE", FarDigits)>>),
               QrUnit(TRUE, <<Symbol("QRCODE", copy)>>) >>

NumExtras == Len(ExtraUnits("number", <<>>))

\* The input folder of process_folder: the images of a finished encoder run
\* of at most MaxLen chunks, with at most one of them left out or one unit
\* added, handed to from_number.py or to from_qr.py.
Deliver ==
    /\ epc = "done" /\ dpc = "idle"
    /\ file_index <= MaxLen
    /\ \E m \in {"number", "qr"}, k \in 0..file_index, x \in 0..NumExtras :
          /\ k = 0 \/ x = 0
          /\ mode' = m
          /\ removed' = IF k = 0 THEN {} ELSE {k}
          /\ extra' = (x # 0)
          /\ folder' =
               [n \in (0..(file_index - 1)) \ {k - 1} |-> Delivered(m, out_dir[n])]
                 @@ (IF x = 0 THEN <<>>
                     ELSE (file_index :> ExtraUnits(m, out_dir)[x]))
    /\ dpc' = "scan"
    /\ UNCHANGED <<scanned, chunk_dict, reported, reassembled, archive,
                   plain_members, plain_truncated, extracted,
                   dir_tarinfo_list, meta_log, result>>
    /\ UNCHANGED <<encVars, textVars>>

\* ---------------------------------------------------------- process_folder
\* StoreChunk with the chunk filed under its order of arrival.
StoreChunkByArrival(d, data) ==
    ((Cardinality(DOMAIN d) + 1) :> Tail(data)) @@ d

\* chunk_dict[data[0]] = data[1:]
StoreChunk(d, data) == (data[1] :> Tail(data)) @@ d

\* i = int(digits); data = i.to_bytes((i.bit_length() + 7) // 8)
DataOf(digits) ==
    LET i == IntOfStr(digits) IN IntToBytes(i, (BitLength(i) + 7) \div 8)

\* from_number.py:51-71: the byte strings the file gives to the dictionary.
\* All bytes but digits are dropped; int() of no digit raises ValueError and
\* the file is skipped; data of no byte is not stored.
NumberData(unit) ==
    IF ~unit.readable THEN <<>>
    ELSE LET digits == SelectSeq(unit.raw, LAMBDA c : c \in 0..9)
         IN IF ~IsDigits(digits) THEN <<>>
            ELSE IF Len(DataOf(digits)) > 0 THEN <<DataOf(digits)>> ELSE <<>>

\* from_qr.py:54-65: one byte string for every QR symbol of the image whose
\* data int() accepts and that is not the number 0.
RECURSIVE SymbolsData(_)
SymbolsData(symbols) ==
    IF symbols = <<>> THEN <<>>
    ELSE LET symbol == Head(symbols)
             here == IF symbol.type # "QRCODE" THEN <<>>
                     ELSE IF ~IsDigits(symbol.data) THEN <<>>
                     ELSE IF Len(DataOf(symbol.data)) > 0
                          THEN <<DataOf(symbol.data)>> ELSE <<>>
         IN here \o SymbolsData(Tail(symbols))

\* from_qr.py:44-65: an image that cannot be opened or scanned is skipped.
QrData(unit) == IF ~unit.readable THEN <<>> ELSE SymbolsData(unit.symbols)

UnitData(m, unit) == IF m = "number" THEN NumberData(unit) ELSE QrData(unit)

RECURSIVE StoreAll(_, _)
StoreAll(d, datas) ==
    IF datas = <<>> THEN d ELSE StoreAll(StoreChunk(d, Head(datas)), Tail(datas))

\* The dictionary after one file of the folder.
ScanUnit(m, d, unit) == StoreAll(d, UnitData(m, unit))

\* One pass of the os.listdir loop; the order of the files is not specified.
ScanFile ==
    /\ dpc = "scan"
    /\ \E f \in DOMAIN folder \ scanned :
          /\ chunk_dict' = ScanUnit(mode, chunk_dict, folder[f])
          /\ scanned' = scanned \cup {f}
    /\ UNCHANGED <<reported, reassembled, archive, plain_members,
                   plain_truncated, extracted, dir_tarinfo_list, meta_log,
                   result, dpc>>
    /\ UNCHANGED <<encVars, folderVars, textVars>>

\* AbsentIndexSet with the range one index too long.
AbsentIndexSetWide(d) == DOMAIN d \ (1..(Cardinality(DOMAIN d) + 1))

\* set(chunk_dict.keys()).difference(range(1, len(chunk_dict) + 1))
AbsentIndexSet(d) == DOMAIN d \ (1..Cardinality(DOMAIN d))

SetMin(S) == CHOOSE x \in S : \A y \in S : x <= y

\* list(sorted(S))
RECURSIVE Sorted(_)
Sorted(S) ==
    IF S = {} THEN <<>> ELSE <<SetMin(S)>> \o Sorted(S \ {SetMin(S)})

\* The check after the loop (from_number.py:76-84, from_qr.py:70-79).
CheckChunks ==
    /\ dpc = "scan" /\ scanned = DOMAIN folder
    /\ LET absent_index_set == AbsentIndexSet(chunk_dict)
       IN IF absent_index_set # {}
          THEN /\ reported' = Sorted(absent_index_set)
               /\ result' = "1"
               /\ dpc' = "returned"
          ELSE /\ dpc' = "read"
               /\ UNCHANGED <<reported, result>>
    /\ UNCHANGED <<scanned, chunk_dict, reassembled, archive, plain_members,
                   plain_truncated, extracted, dir_tarinfo_list, meta_log>>
    /\ UNCHANGED <<encVars, folderVars, textVars>>

\* chunk_dict[1] + ... + chunk_dict[n], what the loop over
\* range(1, len(chunk_dict) + 1) feeds to the decompressor.
RECURSIVE ConcatPayloads(_, _)
ConcatPayloads(d, n) ==
    IF n = 0 THEN <<>> ELSE ConcatPayloads(d, n - 1) \o d[n]

\* from_number.py:87-92, from_qr.py:82-89.  LZMADecompressor is a library:
\* fed the whole stream it yields the whole archive; fed a proper prefix it
\* yields, without an error, the part of the archive decoded so far (no
\* byte at all for the empty prefix); fed anything else it raises.
FeedDecompressor ==
    /\ dpc = "read"
    /\ LET fed == ConcatPayloads(chunk_dict, Cardinality(DOMAIN chunk_dict))
       IN /\ reassembled' = fed
          /\ IF IsPrefix(fed, stream)
             THEN /\ \E a \in Archives : \E n \in 0..Len(a) :
                        /\ fed = <<>> => (n = 0 /\ a = <<Member(<<2>>, FALSE)>>)
                        /\ (fed = stream /\ fed # <<>>) => n = Len(a)
                        /\ archive' = a
                        /\ plain_members' = n
                  /\ plain_truncated' = (fed # stream \/ fed = <<>>)
                  /\ dpc' = "extract"
                  /\ UNCHANGED result
             ELSE /\ result' = "exception"
                  /\ dpc' = "returned"
                  /\ UNCHANGED <<archive, plain_members, plain_truncated>>
    /\ UNCHANGED <<scanned, chunk_dict, reported, extracted,
                   dir_tarinfo_list, meta_log>>
    /\ UNCHANGED <<encVars, folderVars, textVars>>

\* One pass of "for tarinfo in archive_file" (from_number.py:96-109,
\* from_qr.py:93-106): a directory is collected, the member is extracted.
ExtractMember ==
    /\ dpc = "extract"
    /\ Len(extracted) < plain_members
    /\ LET tarinfo == archive[Len(extracted) + 1]
       IN /\ dir_tarinfo_list' =
                IF tarinfo.isdir THEN Append(dir_tarinfo_list, tarinfo)
                ELSE dir_tarinfo_list
          /\ extracted' = Append(extracted, tarinfo.name)
    /\ UNCHANGED <<scanned, chunk_dict, reported, reassembled, archive,
                   plain_members, plain_truncated, meta_log, result, dpc>>
    /\ UNCHANGED <<encVars, folderVars, textVars>>

\* The end of the members temp_file holds whole.  A whole archive ends the
\* loop.  A truncated one makes tarfile raise ReadError (always when not even
\* the first header is there), or end the loop silently when the cut falls
\* in a later header.
EndOfMembers ==
    /\ dpc = "extract"
    /\ Len(extracted) = plain_members
    /\ \E silent \in BOOLEAN :
          /\ ~plain_truncated => silent
          /\ plain_members = 0 => ~silent
          /\ IF silent
             THEN dpc' = "sort" /\ UNCHANGED result
             ELSE dpc' = "returned" /\ result' = "exception"
    /\ UNCHANGED <<scanned, chunk_dict, reported, reassembled, archive,
                   plain_members, plain_truncated, extracted,
                   dir_tarinfo_list, meta_log>>
    /\ UNCHANGED <<encVars, folderVars, textVars>>

\* Path names compare as strings do.
RECURSIVE LexLess(_, _)
LexLess(a, b) ==
    IF b = <<>> THEN FALSE
    ELSE IF a = <<>> THEN TRUE
    ELSE IF Head(a) # Head(b) THEN Head(a) < Head(b)
    ELSE LexLess(Tail(a), Tail(b))

\* list.sort(key=lambda a: a.name, reverse=True): stable, largest name first.
RECURSIVE InsertByName(_, _)
InsertByName(sorted, t) ==
    IF sorted = <<>> THEN <<t>>
    ELSE IF LexLess(Head(sorted).name, t.name)
         THEN <<t>> \o sorted
         ELSE <<Head(sorted)>> \o InsertByName(Tail(sorted), t)

RECURSIVE SortByNameReversed(_)
SortByNameReversed(list) ==
    IF list = <<>> THEN <<>>
    ELSE InsertByName(SortByNameReversed(SubSeq(list, 1, Len(list) - 1)),
                      list[Len(list)])

\* from_number.py:112, from_qr.py:109
SortDirs ==
    /\ dpc = "sort"
    /\ dir_tarinfo_list' = SortByNameReversed(dir_tarinfo_list)
    /\ dpc' = "meta"
    /\ UNCHANGED <<scanned, chunk_dict, reported, reassembled, archive,
                   plain_members, plain_truncated, extracted, meta_log, result>>
    /\ UNCHANGED <<encVars, folderVars, textVars>>

\* The methods of the object tempfile.TemporaryFile() returns, a binary file
\* object: chown, utime and chmod are methods of TarFile, not of it.
TempFileMethods ==
    {"read", "write", "seek", "tell", "flush", "close", "truncate", "fileno"}

\* One pass of the second loop (from_number.py:115-122, from_qr.py:112-119):
\* temp_file.chown(...) is looked up first; AttributeError is not an
\* ExtractError, so it leaves process_folder. An ExtractError is swallowed.
ApplyMetadata ==
    /\ dpc = "meta"
    /\ Len(meta_log) < Len(dir_tarinfo_list)
    /\ LET tarinfo == dir_tarinfo_list[Len(meta_log) + 1]
       IN IF {"chown", "utime", "chmod"} \subseteq TempFileMethods
          THEN /\ \E applied \in BOOLEAN :
                     meta_log' = Append(meta_log, [name |-> tarinfo.name,
                                                   applied |-> applied])
               /\ UNCHANGED <<result, dpc>>
          ELSE /\ result' = "exception"
               /\ dpc' = "returned"
               /\ UNCHANGED meta_log
    /\ UNCHANGED <<scanned, chunk_dict, reported, reassembled, archive,
                   plain_members, plain_truncated, extracted, dir_tarinfo_list>>
    /\ UNCHANGED <<encVars, folderVars, textVars>>

\* return 0 (from_number.py:124, from_qr.py:121)
ReturnZero ==
    /\ dpc = "meta"
    /\ Len(meta_log) = Len(dir_tarinfo_list)
    /\ result' = "0"
    /\ dpc' = "returned"
    /\ UNCHANGED <<scanned, chunk_dict, reported, reassembled, archive,
                   plain_members, plain_truncated, extracted,
                   dir_tarinfo_list, meta_log>>
    /\ UNCHANGED <<encVars, folderVars, textVars>>

\* ------------------------------------------------------- from_text.main
\* A line of stdin is a frame: what decoding it meets (nothing, a radix-85
\* error, a padding error, a decompression error) and the bytes it holds.
FrameKinds == {"ok", "a85", "padding", "lzma"}
Frames == [kind : FrameKinds, data : {<<1>>, <<2, 3>>}]

InitText ==
    /\ EncIdle /\ FolderIdle /\ DecIdle
    /\ lines \in SeqsUpTo(Frames, MaxLines)
    /\ line_no = 0 /\ bin_files = <<>> /\ tpc = "loop"

\* What "<i>.bin" holds when decoding the frame raised: a85decode raises
\* before the first write, the other two after some of the writes.
PartialOutputs(frame) ==
    IF frame.kind = "a85" THEN {<<>>}
    ELSE {SubSeq(frame.data, 1, n) : n \in 0..(Len(frame.data) - 1)}

\* One pass of "for i, line in enumerate(stdin.buffer)" (lines 28-57): the
\* file is opened with "wb+", then the line is decoded into it. No exception
\* is handled, so the first one leaves main.
DecodeLine ==
    /\ tpc = "loop"
    /\ line_no < Len(lines)
    /\ LET frame == lines[line_no + 1]
       IN IF frame.kind = "ok"
          THEN /\ bin_files' = (line_no :> frame.data) @@ bin_files
               /\ line_no' = line_no + 1
               /\ UNCHANGED tpc
          ELSE /\ \E partial \in PartialOutputs(frame) :
                     bin_files' = (line_no :> partial) @@ bin_files
               /\ tpc' = "exception"
               /\ UNCHANGED line_no
    /\ UNCHANGED lines
    /\ UNCHANGED <<encVars, folderVars, decVars>>

\* stdin is exhausted: main returns.
EndOfInput ==
    /\ tpc = "loop"
    /\ line_no = Len(lines)
    /\ tpc' = "done"
    /\ UNCHANGED <<lines, line_no, bin_files>>
    /\ UNCHANGED <<encVars, folderVars, decVars>>

NextText == DecodeLine \/ EndOfInput

SpecText == InitText /\ [][NextText]_vars

\* ------------------------------------------------------ the whole pipeline
Next ==
    \/ EncodeStep
    \/ Deliver
    \/ ScanFile
    \/ CheckChunks
    \/ FeedDecompressor
    \/ ExtractMember
    \/ EndOfMembers
    \/ SortDirs
    \/ ApplyMetadata
    \/ ReturnZero

Spec == Init /\ [][Next]_vars

\* ------------------------- to_qrcode.main: whole runs at table digit budgets
\* Arguments the digit budget is looked up for: level H version 1 (17 digits,
\* 10^17 - 1 has 57 bits) and level Q version 2 (48 digits, 10^48 - 1 has
\* 160 bits, a whole number of bytes).
FitArgs == {<<"H", 1>>, <<"Q", 2>>}

\* A stream of n bytes, all equal to b.
FillStream(n, b) == [i \in 1..n |-> b]

\* Compressed streams that need every index from 1 to MaxIndex at capacity c.
FitStreams(c) == {FillStream(MaxIndex * c, b) : b \in ByteVals}

\* The state at line 353 for the arguments of FitArgs, lines 328-334 done.
InitFit ==
    /\ \E args \in FitArgs : error = args[1] /\ max_version = args[2]
    /\ int_max_str_digits = NoAttr
    /\ max_str_digits
          = ClampDigits(DigitEntry(error, max_version), int_max_str_digits)
    /\ max_chunk_size = MaxChunkSizeOf(max_str_digits)
    /\ stream \in FitStreams(max_chunk_size)
    /\ pos = 0 /\ file_index = 0 /\ out_dir = <<>> /\ emitted = <<>>
    /\ epc = "loop"
    /\ FolderIdle /\ DecIdle /\ TextIdle

NextFit == EncodeStep

SpecFit == InitFit /\ [][NextFit]_vars

\* ------------------------------------------------------------ properties
SetMax(S) == CHOOSE x \in S : \A y \in S : y <= x

CeilDiv(a, b) == (a + b - 1) \div b

Keys == DOMAIN chunk_dict

Complete == Keys = 1..Cardinality(Keys)

\* The folder is the whole output of the encoder's run and nothing else.
WholeFolder == dpc # "idle" /\ removed = {} /\ ~extra

\* C1: every chunk the loop writes converts back to its index byte followed
\* by its window, and for a whole folder the dictionary is the sequence of
\* windows, the completeness check passes and the bytes fed to the
\* decompressor are the stream.
InvC1 ==
    /\ (dpc = "idle" /\ file_index >= 1) =>
          DataOf(out_dir[file_index - 1])
              = <<file_index>> \o emitted[file_index]
    /\ (WholeFolder /\ scanned = DOMAIN folder) =>
          /\ Keys = 1..file_index
          /\ \A i \in Keys : chunk_dict[i] = emitted[i]
    /\ (WholeFolder /\ dpc = "returned") => result # "1"
    /\ (WholeFolder /\ dpc \in {"extract", "sort", "meta", "returned"}) =>
          reassembled = stream

\* A whole folder of two or more chunks, the second window starting with a
\* zero byte, has been reassembled.
WitC1 ==
    /\ WholeFolder /\ dpc = "extract"
    /\ file_index >= 2 /\ emitted[2][1] = 0
    /\ reassembled = stream

\* C2: with one chunk of the run left out, process_folder ends in a failure
\* and no member has been extracted.
InvC2 ==
    (dpc = "returned" /\ removed # {} /\ ~extra) =>
        (result # "0" /\ extracted = <<>>)

\* C3: the list printed when the completeness check fails is the ascending
\* list of the indices of 1..max that are not keys of the dictionary.
InvC3 ==
    (dpc = "returned" /\ result = "1") =>
        reported = Sorted((1..SetMax(Keys)) \ Keys)

\* C4: a run that ends with "Too many image files" has written no image.
InvC4 == epc = "exit1" => DOMAIN out_dir = {}

\* C5: when main has ended, every frame of the batch that decodes has its
\* own numbered file with its bytes, whatever happened to the frames before.
InvC5 ==
    tpc \in {"done", "exception"} =>
        \A j \in 1..Len(lines) :
            lines[j].kind = "ok" =>
                /\ (j - 1) \in DOMAIN bin_files
                /\ bin_files[j - 1] = lines[j].data

\* C6: the decompressor is fed only when the keys are 1..N for N keys; for
\* every other key set process_folder returns 1, and only for those, having
\* fed nothing to the decompressor and extracted nothing.
InvC6 ==
    /\ dpc \in {"read", "extract", "sort", "meta"} => Complete
    /\ dpc = "returned" => (Complete <=> result # "1")
    /\ (dpc = "returned" /\ ~Complete) =>
          /\ reassembled = <<>> /\ archive = <<>>
          /\ extracted = <<>> /\ meta_log = <<>>

\* A key set with a gap has been rejected.
WitC6 ==
    /\ dpc = "returned" /\ result = "1"
    /\ Cardinality(Keys) >= 2 /\ ~Complete
    /\ reassembled = <<>> /\ extracted = <<>>

\* The dictionary after the files S of the folder, scanned in name order.
RECURSIVE ScanInNameOrder(_, _, _)
ScanInNameOrder(m, fld, S) ==
    IF S = {} THEN <<>>
    ELSE ScanUnit(m, ScanInNameOrder(m, fld, S \ {SetMax(S)}), fld[SetMax(S)])

\* The outcome of process_folder is the one of a scan in name order: the
\* dictionary during and after the scan, and at the end the printed list or
\* the bytes that were fed to the decompressor.
SameAsNameOrder ==
    LET d == ScanInNameOrder(mode, folder, scanned)
    IN /\ chunk_dict = d
       /\ (dpc = "returned" /\ result = "1") =>
             reported = Sorted(AbsentIndexSet(d))
       /\ (dpc = "returned" /\ result # "1") =>
             reassembled = ConcatPayloads(d, Cardinality(DOMAIN d))

Scanning == dpc \in {"scan", "read", "returned"}

\* All byte strings the units of the folder give to the dictionary.
FolderData ==
    UNION {Range(UnitData(mode, folder[f])) : f \in DOMAIN folder}

\* Units that yield the same index yield the same payload.
NoConflict == \A a, b \in FolderData : a[1] = b[1] => a = b

\* C7 as claimed: whatever the folder holds, the dictionary and the outcome
\* are those of a scan in name order, so they are the same for every order.
InvC7Any == Scanning => SameAsNameOrder

\* C7: when units that yield the same index yield the same payload, the
\* dictionary and the outcome are those of a scan in name order.
InvC7 == (Scanning /\ NoConflict) => SameAsNameOrder

\* Three units, two of them with the same index and payload, all scanned.
WitC7 ==
    /\ dpc = "read" /\ NoConflict /\ extra
    /\ Cardinality(DOMAIN folder) >= 3 /\ Cardinality(Keys) = 2

\* C8: the indices are 1..N in sequence and at most MaxIndex, file n holds
\* chunk n + 1, every window is non-empty and at most the capacity, all but
\* the newest are exactly the capacity, and a finished run has made
\* ceil(L / capacity) chunks.
InvC8 ==
    dpc = "idle" =>
        /\ file_index \in 0..MaxIndex
        /\ Len(emitted) = file_index
        /\ DOMAIN out_dir = 0..(file_index - 1)
        /\ file_index >= 1 =>
              DataOf(out_dir[file_index - 1])[1] = file_index
        /\ \A i \in 1..file_index :
              /\ Len(emitted[i]) \in 1..max_chunk_size
              /\ i < file_index => Len(emitted[i]) = max_chunk_size
        /\ epc = "done" =>
              file_index = CeilDiv(Len(stream), max_chunk_size)

\* A run of MaxIndex chunks has finished.
WitC8 == epc = "done" /\ file_index = MaxIndex /\ max_chunk_size > 1

\* C9: for every level and version the derivation ends with the capacity
\* floor(bitLength(10^d - 1) / 8) - 1 for the table's entry d.
InvC9 ==
    epc \notin {"idle", "args", "digits"} =>
        /\ epc = "sized"
        /\ max_chunk_size
             = BitLengthOfNines(DigitEntry(error, max_version)) \div 8 - 1

IsProperAncestor(a, d) ==
    /\ Len(a) < Len(d)
    /\ SubSeq(d, 1, Len(a)) = a
    /\ d[Len(a) + 1] = Slash

\* C10: metadata is applied only after the last member is extracted, and
\* when process_folder has ended after a whole archive, every collected
\* directory has had its metadata applied, a directory before its ancestors.
InvC10 ==
    /\ meta_log # <<>> =>
          (dpc \in {"meta", "returned"} /\ Len(extracted) = plain_members)
    /\ (dpc = "returned" /\ archive # <<>> /\ ~plain_truncated) =>
          /\ \A k \in 1..Len(dir_tarinfo_list) :
                \E p \in 1..Len(meta_log) :
                    meta_log[p].name = dir_tarinfo_list[k].name
          /\ \A p, q \in 1..Len(meta_log) :
                IsProperAncestor(meta_log[p].name, meta_log[q].name) => q < p

\* C11: when process_folder has ended with a complete chunk set whose archive
\* was read whole and every member of it was extracted, its status is 0,
\* whether or not the archive holds directories and whatever happened while
\* their owner, mtime and mode were applied.
InvC11 ==
    (/\ dpc = "returned"
     /\ Complete
     /\ reassembled = stream
     /\ archive # <<>>
     /\ ~plain_truncated
     /\ Len(extracted) = Len(archive)) => result = "0"

\* C12: with a capacity of at least one byte, every chunk the encoder has
\* written (its index byte followed by at most max_chunk_size payload bytes)
\* is rendered in at most max_str_digits decimal digits, the digit budget the
\* capacity was derived from.
InvC12 ==
    max_chunk_size >= 1 =>
        \A n \in DOMAIN out_dir :
            Len(emitted[n + 1]) <= max_chunk_size
                => Len(out_dir[n]) <= max_str_digits

====
